---- MODULE Spec2Model ----
(***************************************************************************)
(* Model of the zinolib Zino 1 event manager (controllers/zino1.py) and of *)
(* the notification reconciliation loop of the curitz2 example dashboard   *)
(* (examples/curitz2.py).                                                  *)
(*                                                                         *)
(* The event store (`Zino1EventManager.events`, `cases` in curitz2) is a    *)
(* function from event id to Event.  An Event is abstracted to its id, its *)
(* admin state, and the number of entries of its history and of its log    *)
(* (the remote history only ever grows, so a list of entries is determined *)
(* by its length; the remote log has LogLines lines, a freshly created     *)
(* Event has none).  The remote system is the state `server`; every        *)
(* session call of a handler may raise ProtocolError, which the handlers   *)
(* draw as an input.  `last` records the last call and how it returned.    *)
(***************************************************************************)
EXTENDS Integers, Sequences, FiniteSets, TLC

\* ------------------------------------------------------------------ bounds
MaxHist == 1    \* the remote history of an event grows to at most MaxHist entries
LogLines == 1   \* the number of lines of an event's remote log

MaxLines == 3   \* a raw response has at most MaxLines lines

Ids == {1, 2}
AdmStates == {"open", "working"}
NotifyTypes == {"state", "attr", "history", "log", "scavenged", "bogus"}
NoCase == 0
NoEvent == [id |-> 0, adm_state |-> "none", history |-> 0, log |-> 0]

VARIABLES
    server,          \* remote system: id -> [state, hist]
    events,          \* the event store: id -> Event, for the ids it holds
    cases_selected,  \* curitz2's selection working list (no duplicates)
    last,            \* the last operation, its arguments and its outcome
    wire,            \* a raw response of the session: a list of lines
    parsed           \* what an adapter made of `wire`

vars == <<server, events, cases_selected, last, wire, parsed>>

\* `parsed` before an adapter ran
Unparsed == [fn |-> "", err |-> "", out |-> << >>]

\* ------------------------------------------------------------- helpers
Put(store, k, e) == [i \in (DOMAIN store) \cup {k} |-> IF i = k THEN e ELSE store[i]]

Pop(store, k) == [i \in (DOMAIN store) \ {k} |-> store[i]]

Range(s) == {s[n] : n \in 1..Len(s)}

Remove(s, x) ==
    LET n == CHOOSE m \in 1..Len(s) : s[m] = x /\ \A j \in 1..(m - 1) : s[j] # x
    IN  SubSeq(s, 1, n - 1) \o SubSeq(s, n + 1, Len(s))

Outcome(op, id, arg, out, ev) == [op |-> op, id |-> id, arg |-> arg, out |-> out, ev |-> ev]

\* the sequences over S without repetition (an id list as the session returns it)
Orderings(S) ==
    {s \in UNION {[1..n -> S] : n \in 0..Cardinality(S)} :
        \A a, b \in 1..Len(s) : a # b => s[a] # s[b]}

\* --------------------------------------------------- session and adapters
get_raw_attributes(i) == [id |-> i, state |-> server[i].state]

get_raw_history(i) == server[i].hist

get_raw_log(i) == LogLines

attrlist_to_attrdict(attrlist) == [id |-> attrlist.id, adm_state |-> attrlist.state]

EventCreate(attrdict) ==
    [id |-> attrdict.id, adm_state |-> attrdict.adm_state, history |-> 0, log |-> 0]

create_event_from_id(i) == EventCreate(attrlist_to_attrdict(get_raw_attributes(i)))

set_history_for_event(event, history_list) == [event EXCEPT !.history = history_list]

set_log_for_event(event, log_list) == [event EXCEPT !.log = log_list]

get_updated_event_without_log(i) ==
    LET event == create_event_from_id(i)
    IN  set_history_for_event(event, get_raw_history(event.id))

get_updated_event_for_id(i) ==
    LET event == create_event_from_id(i)
        withHistory == set_history_for_event(event, get_raw_history(event.id))
    IN  set_log_for_event(withHistory, get_raw_log(event.id))

_set_event(store, event) == Put(store, event.id, event)

\* the Event object the store holds for an id (not a copy)
_get_event(store, i) == store[i]

\* ------------------------------------------------------------------ Init
Init ==
    /\ server \in [Ids -> [state : AdmStates, hist : {0}]]
    /\ events = << >>
    /\ cases_selected = << >>
    /\ last = Outcome("init", 0, "", "", NoEvent)
    /\ wire = << >>
    /\ parsed = Unparsed

\* ------------------------------------------------------ the remote system
RemoteChange ==
    \E i \in Ids, s \in AdmStates, h \in 0..1 :
        /\ server[i].hist + h <= MaxHist
        /\ server' = [server EXCEPT ![i] = [state |-> s, hist |-> @.hist + h]]
        /\ server' # server
        /\ last' = Outcome("remote", i, "", "", NoEvent)
        /\ UNCHANGED <<events, cases_selected, wire, parsed>>

\* ------------------------------------------------------- manager: queries
\* create_event_from_id: the attribute fetch is wrapped by rename_exception
CreateEventFromId ==
    \E i \in Ids, fault \in BOOLEAN :
        /\ last' = IF fault
                   THEN Outcome("create_event_from_id", i, "", "ManagerException", NoEvent)
                   ELSE Outcome("create_event_from_id", i, "", "event", create_event_from_id(i))
        /\ UNCHANGED <<server, events, cases_selected, wire, parsed>>

\* refresh = 0: no session call fails; 1, 2, 3: the attribute, history, log
\* fetch raises ProtocolError, which rename_exception turns into ManagerException
RefreshFaults == 0..3

GetUpdatedEventForId ==
    \E i \in Ids, refresh \in RefreshFaults :
        /\ last' = IF refresh # 0
                   THEN Outcome("get_updated_event_for_id", i, "", "ManagerException", NoEvent)
                   ELSE Outcome("get_updated_event_for_id", i, "", "event",
                                get_updated_event_for_id(i))
        /\ UNCHANGED <<server, events, cases_selected, wire, parsed>>

get_history_for_id_storing(store, i) ==
    IF i \in DOMAIN store THEN [store EXCEPT ![i].history = get_raw_history(i)] ELSE store

\* the store as get_history_for_id leaves it: the list is returned, not stored
get_history_for_id(store, i) == store

GetHistoryForId ==
    \E i \in Ids, fault \in BOOLEAN :
        /\ events' = get_history_for_id(events, i)
        /\ last' = IF fault
                   THEN Outcome("get_history_for_id", i, "", "ManagerException", NoEvent)
                   ELSE Outcome("get_history_for_id", i, "", "list", NoEvent)
        /\ UNCHANGED <<server, cases_selected, wire, parsed>>

\* the store as get_log_for_id leaves it
get_log_for_id(store, i) == store

GetLogForId ==
    \E i \in Ids, fault \in BOOLEAN :
        /\ events' = get_log_for_id(events, i)
        /\ last' = IF fault
                   THEN Outcome("get_log_for_id", i, "", "ManagerException", NoEvent)
                   ELSE Outcome("get_log_for_id", i, "", "list", NoEvent)
        /\ UNCHANGED <<server, cases_selected, wire, parsed>>

\* ---------------------------------------------------- manager: get_events
\* the store after the loop body ran for the first n ids of event_ids
RECURSIVE get_events_rebuild(_, _, _)
get_events_rebuild(store, event_ids, n) ==
    IF n = 0 THEN << >>
    ELSE LET before == get_events_rebuild(store, event_ids, n - 1)
         IN  Put(before, event_ids[n], create_event_from_id(event_ids[n]))

RECURSIVE get_events(_, _, _)
get_events(store, event_ids, n) ==
    IF n = 0 THEN store
    ELSE LET before == get_events(store, event_ids, n - 1)
         IN  Put(before, event_ids[n], create_event_from_id(event_ids[n]))

\* fault = -1: get_caseids raises (not wrapped); fault = k > 0: the attribute
\* fetch of the k-th id raises and the exception leaves the loop; 0: no fault
GetEventsStep(event_ids, fault) ==
        /\ events' = IF fault = -1 THEN events
                     ELSE IF fault = 0 THEN get_events(events, event_ids, Len(event_ids))
                     ELSE get_events(events, event_ids, fault - 1)
        /\ last' = Outcome("get_events",
                           IF fault > 0 THEN event_ids[fault] ELSE 0, "",
                           IF fault = -1 THEN "ProtocolError"
                           ELSE IF fault = 0 THEN "done" ELSE "ManagerException",
                           NoEvent)
        /\ UNCHANGED <<server, cases_selected, wire, parsed>>

GetEvents ==
    \E event_ids \in Orderings(Ids) :
      \E fault \in -1..Len(event_ids) : GetEventsStep(event_ids, fault)

\* ------------------------------------------- manager: change_admin_state
\* ack: what session.set_state does: raise, decline or acknowledge
Acks == {"ProtocolError", "declined", "acknowledged"}

change_admin_state_unchecked(store, ack, refresh, event) ==
    IF ack # "ProtocolError" /\ refresh = 0 THEN _set_event(store, event) ELSE store

change_admin_state_for_id(store, ack, refresh, event) ==
    IF ack = "acknowledged" /\ refresh = 0 THEN _set_event(store, event) ELSE store

ChangeAdminStateStep(i, admin_state, ack, refresh) ==
      \E event \in {_get_event(events, i)} :
        /\ ack # "acknowledged" => refresh = 0
        /\ server' = IF ack = "acknowledged"
                     THEN [server EXCEPT ![event.id].state = admin_state]
                     ELSE server
        /\ events' = change_admin_state_for_id(events, ack, refresh,
                                               get_updated_event_for_id(i)')
        /\ last' = Outcome("change_admin_state_for_id", i, ack,
                           IF ack = "ProtocolError" THEN "ProtocolError"
                           ELSE IF ack = "declined" THEN "none"
                           ELSE IF refresh # 0 THEN "ManagerException"
                           ELSE "event",
                           IF ack = "acknowledged" /\ refresh = 0
                           THEN get_updated_event_for_id(i)' ELSE NoEvent)
        /\ UNCHANGED <<cases_selected, wire, parsed>>

ChangeAdminStateForId ==
    \E i \in DOMAIN events, admin_state \in AdmStates,
       ack \in Acks, refresh \in RefreshFaults :
        ChangeAdminStateStep(i, admin_state, ack, refresh)

\* ------------------------------------------- manager: add_history_entry
\* HistoryAdapter.add assigns the refetched history to the event object it
\* was given, which is the object held by the store
HistoryAdapter_add(store, i, new_history) == [store EXCEPT ![i].history = new_history]

\* fetch: get_raw_history inside HistoryAdapter.add raises (not wrapped)
add_history_entry_for_id(store, i, ack, fetch, refresh, new_history, event) ==
    IF ack # "acknowledged" \/ fetch THEN store
    ELSE LET added == HistoryAdapter_add(store, i, new_history)
         IN  IF refresh = 0 THEN _set_event(added, event) ELSE added

AddHistoryEntryStep(i, ack, fetch, refresh) ==
      \E event \in {_get_event(events, i)} :
        /\ ack # "acknowledged" => ~fetch /\ refresh = 0
        /\ fetch => refresh = 0
        /\ ack = "acknowledged" => server[event.id].hist < MaxHist
        /\ server' = IF ack = "acknowledged"
                     THEN [server EXCEPT ![event.id].hist = @ + 1]
                     ELSE server
        /\ events' = add_history_entry_for_id(events, i, ack, fetch, refresh,
                                              get_raw_history(event.id)',
                                              get_updated_event_for_id(i)')
        /\ last' = Outcome("add_history_entry_for_id", i, ack,
                           IF ack = "ProtocolError" \/ fetch THEN "ProtocolError"
                           ELSE IF ack = "declined" THEN "none"
                           ELSE IF refresh # 0 THEN "ManagerException"
                           ELSE "event",
                           IF ack = "acknowledged" /\ ~fetch /\ refresh = 0
                           THEN get_updated_event_for_id(i)' ELSE NoEvent)
        /\ UNCHANGED <<cases_selected, wire, parsed>>

AddHistoryEntryForId ==
    \E i \in DOMAIN events, ack \in Acks, fetch \in BOOLEAN, refresh \in RefreshFaults :
        AddHistoryEntryStep(i, ack, fetch, refresh)

\* ------------------------------------------------------- curitz2: poll
Notifications == [id : Ids, type : NotifyTypes, case : Ids \cup {NoCase}]

\* session.case(id): the Case built from the attributes fetched for id
session_case(i) == create_event_from_id(i)

\* the unknown-id guard: the early return (None) of poll
poll_dropped_attr(store, update) ==
    update.id \notin DOMAIN store /\ update.type \notin {"state", "attr"}

poll_dropped(store, update) == update.id \notin DOMAIN store /\ update.type # "state"

poll_cases_known_kept(store, update) ==
    IF update.type \in {"state", "attr"}
    THEN IF update.id \in DOMAIN store THEN store
         ELSE Put(store, update.id, session_case(update.id))
    ELSE IF update.type = "scavenged" THEN Pop(store, update.id)
    ELSE store

poll_cases(store, update) ==
    IF update.type \in {"state", "attr"} THEN Put(store, update.id, session_case(update.id))
    ELSE IF update.type = "scavenged" THEN Pop(store, update.id)
    ELSE store

poll_selected_any_kind(selected, update) ==
    IF update.id \in Range(selected) THEN Remove(selected, update.id) ELSE selected

poll_selected(selected, update) ==
    IF update.type = "scavenged" /\ update.case \in Range(selected)
                                 /\ update.id \in Range(selected)
    THEN Remove(selected, update.id)
    ELSE selected

poll_result_always_changed(selected, update) ==
    IF update.type = "scavenged" /\ update.case \in Range(selected)
                                 /\ update.id \notin Range(selected)
    THEN "ValueError"
    ELSE "True"

poll_result(selected, update) ==
    IF update.type \in {"state", "attr", "history", "log"} THEN "True"
    ELSE IF update.type = "scavenged"
    THEN IF update.case \in Range(selected) /\ update.id \notin Range(selected)
         THEN "ValueError"     \* list.remove(x): x not in list
         ELSE "True"
    ELSE "False"

PollOutcome(update, out) == Outcome("poll", update.id, update.type, out, NoEvent)

\* fault: session.case raises while the notification is applied
PollStep(update, fault) ==
        /\ fault => update.type \in {"state", "attr"} /\ ~poll_dropped(events, update)
        /\ IF poll_dropped(events, update)
           THEN /\ last' = PollOutcome(update, "None")
                /\ UNCHANGED <<events, cases_selected>>
           ELSE IF fault
           THEN /\ last' = PollOutcome(update, "ProtocolError")
                /\ UNCHANGED <<events, cases_selected>>
           ELSE /\ events' = poll_cases(events, update)
                /\ cases_selected' = poll_selected(cases_selected, update)
                /\ last' = PollOutcome(update, poll_result(cases_selected, update))
        /\ UNCHANGED <<server, wire, parsed>>

Poll ==
    \/ /\ last' = Outcome("poll", 0, "", "None", NoEvent)   \* notifier.poll() gave nothing
       /\ UNCHANGED <<server, events, cases_selected, wire, parsed>>
    \/ \E update \in Notifications, fault \in BOOLEAN : PollStep(update, fault)

\* ------------------------------------------------ curitz2: the selection
\* 'x': (de)select the active list element, an id of the case list
ToggleSelect ==
    \E active \in DOMAIN events :
        /\ cases_selected' = IF active \in Range(cases_selected)
                             THEN Remove(cases_selected, active)
                             ELSE Append(cases_selected, active)
        /\ last' = Outcome("toggle", active, "", "", NoEvent)
        /\ UNCHANGED <<server, events, wire, parsed>>

\* 'c': clear the selection
ClearSelection ==
    /\ cases_selected' = << >>
    /\ last' = Outcome("clear", 0, "", "", NoEvent)
    /\ UNCHANGED <<server, events, wire, parsed>>

Next ==
    \/ RemoteChange
    \/ CreateEventFromId
    \/ GetUpdatedEventForId
    \/ GetHistoryForId
    \/ GetLogForId
    \/ GetEvents
    \/ ChangeAdminStateForId
    \/ AddHistoryEntryForId
    \/ Poll
    \/ ToggleSelect
    \/ ClearSelection

Spec == Init /\ [][Next]_vars

\* the manager alone (zino1.py), against a changing remote system
NextManager ==
    \/ RemoteChange
    \/ CreateEventFromId
    \/ GetUpdatedEventForId
    \/ GetHistoryForId
    \/ GetLogForId
    \/ GetEvents
    \/ ChangeAdminStateForId
    \/ AddHistoryEntryForId

SpecManager == Init /\ [][NextManager]_vars

\* the dashboard loop (curitz2.py): cold start, notifications, selection
NextDashboard ==
    \/ RemoteChange
    \/ GetEvents
    \/ Poll
    \/ ToggleSelect
    \/ ClearSelection

SpecDashboard == Init /\ [][NextDashboard]_vars
\* every operation that writes the store: the manager and the notifications
NextStore ==
    \/ NextManager
    \/ Poll

SpecStore == Init /\ [][NextStore]_vars

\* ===================================================================
\* The wire adapters.  A text is a sequence of atoms: a word without
\* whitespace or separator, or one of the characters " ", ":", "-", "_".
\* ===================================================================
Lists(lines) == UNION {[1..n -> lines] : n \in 0..MaxLines}

Positions(text, atom) == {n \in 1..Len(text) : text[n] = atom}

Min(S) == CHOOSE n \in S : \A m \in S : n <= m

Max(S) == CHOOSE n \in S : \A m \in S : n >= m

\* str.strip()
strip(text) ==
    LET inked == {n \in 1..Len(text) : text[n] # " "}
    IN  IF inked = {} THEN << >> ELSE SubSeq(text, Min(inked), Max(inked))

\* str.split(sep, 1): one part when sep is absent, else the parts around the first sep
split(text, sep) ==
    IF Positions(text, sep) = {} THEN <<text>>
    ELSE LET at == Min(Positions(text, sep))
         IN  <<SubSeq(text, 1, at - 1), SubSeq(text, at + 1, Len(text))>>

\* '_'.join(k.split('-'))
join_split(k) == [n \in 1..Len(k) |-> IF k[n] = "-" THEN "_" ELSE k[n]]

Numerals == ("1" :> 1) @@ ("2" :> 2) @@ ("3" :> 3) @@ ("4" :> 4) @@ ("42" :> 42)

\* int(text) works on a numeral, with surrounding whitespace allowed
is_int(text) == Len(strip(text)) = 1 /\ strip(text)[1] \in DOMAIN Numerals

int(text) == Numerals[strip(text)[1]]

\* convert_timestamp: the UTC instant of an epoch
\* the decimal text of a number, as the server writes it
str(n) ==
    IF \E a \in DOMAIN Numerals : Numerals[a] = n
    THEN CHOOSE a \in DOMAIN Numerals : Numerals[a] = n
    ELSE "?"

convert_timestamp_shifted(timestamp) == [epoch |-> timestamp + 1, tz |-> "UTC"]

convert_timestamp(timestamp) == [epoch |-> timestamp, tz |-> "UTC"]

Raised(err) == [err |-> err, out |-> << >>]

Returned(out) == [err |-> "", out |-> out]

\* ------------------------------------------------------ EventAdapter
FIELD_MAP ==
    (<<"state">> :> <<"adm", "_", "state">>) @@
    (<<"bfdAddr">> :> <<"bfd", "_", "addr">>) @@
    (<<"bfdDiscr">> :> <<"bfd", "_", "discr">>) @@
    (<<"bfdState">> :> <<"bfd", "_", "state">>) @@
    (<<"bfdIx">> :> <<"bfd", "_", "ix">>) @@
    (<<"bgpAS">> :> <<"bgp", "_", "AS">>) @@
    (<<"bgpOS">> :> <<"bgp", "_", "OS">>) @@
    (<<"ifindex">> :> <<"if", "_", "index">>) @@
    (<<"portstate">> :> <<"port", "_", "state">>)

FIELD_MAP_get(k) == IF k \in DOMAIN FIELD_MAP THEN FIELD_MAP[k] ELSE k

\* the key under which an item's value is stored
attrdict_key_unmapped(k) == strip(join_split(k))

attrdict_key(k) == strip(FIELD_MAP_get(join_split(k)))

\* event_dict after the loop body ran for the first n items
RECURSIVE attrlist_to_attrdict_skipping(_, _)
attrlist_to_attrdict_skipping(attrlist, n) ==
    IF n = 0 THEN Returned(<< >>)
    ELSE LET before == attrlist_to_attrdict_skipping(attrlist, n - 1)
             kv == split(attrlist[n], ":")
         IN  IF Len(kv) < 2 THEN before
             ELSE Returned(Put(before.out, attrdict_key(kv[1]), strip(kv[2])))

RECURSIVE attrlist_to_attrdict_loop(_, _)
attrlist_to_attrdict_loop(attrlist, n) ==
    IF n = 0 THEN Returned(<< >>)
    ELSE LET before == attrlist_to_attrdict_loop(attrlist, n - 1)
             kv == split(attrlist[n], ":")
         IN  IF before.err # "" THEN before
             ELSE IF Len(kv) < 2 THEN Raised("ValueError")   \* k, v = [one part]
             ELSE Returned(Put(before.out, attrdict_key(kv[1]), strip(kv[2])))

EventAdapter_attrlist_to_attrdict(attrlist) ==
    attrlist_to_attrdict_loop(attrlist, Len(attrlist))

ac_down == <<"ac", "_", "down">>

\* convert_values: FIELD_VALUE_CONVERTER_MAP holds 'ac_down': int
EventAdapter_convert_values(attrdict) ==
    IF ac_down \notin DOMAIN attrdict THEN Returned(attrdict)
    ELSE IF ~is_int(attrdict[ac_down]) THEN Raised("ValueError")
    ELSE Returned(Put(attrdict, ac_down, int(attrdict[ac_down])))

\* Event.create: an Event needs at least its id
Event_create(attrdict) ==
    IF <<"id">> \notin DOMAIN attrdict \/ ~is_int(attrdict[<<"id">>])
    THEN Raised("ValidationError")
    ELSE Returned([id |-> int(attrdict[<<"id">>]),
                   adm_state |-> IF <<"adm", "_", "state">> \in DOMAIN attrdict
                                 THEN attrdict[<<"adm", "_", "state">>] ELSE << >>,
                   history |-> 0, log |-> 0])

\* create_event_from_id on the attribute lines the session returned
create_event_from_attrlist(attrlist) ==
    LET attrdict == EventAdapter_attrlist_to_attrdict(attrlist)
        converted == EventAdapter_convert_values(attrdict.out)
    IN  IF attrdict.err # "" THEN attrdict
        ELSE IF converted.err # "" THEN converted
        ELSE Event_create(converted.out)

AttrLines ==
    {<<"id", ":", "42">>,
     <<"state", ":", " ", "open">>,
     <<"state", ":", "closed">>,
     <<"ifindex", ":", "3">>,
     <<"if", "-", "index", ":", "4">>,
     <<" ", "state", " ", ":", "ignored">>,
     <<"descr", ":", "a", ":", "b">>,
     <<"ac", "-", "down", ":", " ", "2">>,
     <<"id", " ", "42">>}

AttrlistToAttrdict ==
    /\ parsed = Unparsed
    /\ LET result == EventAdapter_attrlist_to_attrdict(wire)
       IN  parsed' = [fn |-> "attrlist_to_attrdict", err |-> result.err, out |-> result.out]
    /\ UNCHANGED <<server, events, cases_selected, last, wire>>

\* the store as create_event_from_id leaves it: the Event is returned, not stored
create_event_from_id_store(store, event) == store

CreateEventFromAttrlist ==
    \E i \in Ids :
        /\ parsed = Unparsed
        /\ LET result == create_event_from_attrlist(wire)
           IN  /\ parsed' = [fn |-> "create_event_from_id", err |-> result.err,
                             out |-> result.out]
               /\ events' = create_event_from_id_store(events, result.out)
               /\ last' = Outcome("create_event_from_id", i, "",
                                  IF result.err # "" THEN result.err ELSE "event", NoEvent)
        /\ UNCHANGED <<server, cases_selected, wire>>

InitAttrParser ==
    /\ server \in [Ids -> [state : AdmStates, hist : {0}]]
    /\ events \in {<< >>, get_events(<< >>, <<1>>, 1)}
    /\ cases_selected = << >>
    /\ last = Outcome("init", 0, "", "", NoEvent)
    /\ wire \in Lists(AttrLines)
    /\ parsed = Unparsed

NextAttrParser ==
    \/ AttrlistToAttrdict
    \/ CreateEventFromAttrlist

SpecAttrParser == InitAttrParser /\ [][NextAttrParser]_vars

\* ------------------------------ the store, filled from attribute lines
\* the attribute lines the session hands out for id i, in the layouts the
\* server may use; the last two are answers that cannot be made into an Event
AttrLayouts == {"plain", "padded", "converted", "no-id", "no-separator"}

session_get_raw_attributes(i, layout) ==
    CASE layout = "plain" ->
            << <<"id", ":", str(i)>>, <<"state", ":", "open">> >>
      [] layout = "padded" ->
            << <<"state", ":", " ", "closed">>, <<"id", ":", " ", str(i), " ">> >>
      [] layout = "converted" ->
            << <<"id", ":", str(i)>>, <<"ac", "-", "down", ":", " ", "2">> >>
      [] layout = "no-id" ->
            << <<"state", ":", "open">> >>
      [] layout = "no-separator" ->
            << <<"id", " ", str(i)>> >>

\* get_events on attribute lines: the store after the loop body ran for the
\* first n ids of event_ids, and the exception that left the loop, if any
RECURSIVE get_events_keyed_by_position(_, _, _, _)
get_events_keyed_by_position(store, event_ids, layouts, n) ==
    IF n = 0 THEN Returned(store)
    ELSE LET before == get_events_keyed_by_position(store, event_ids, layouts, n - 1)
             event_id == event_ids[n]
             event == create_event_from_attrlist(
                          session_get_raw_attributes(event_id, layouts[event_id]))
         IN  IF before.err # "" THEN before
             ELSE IF event.err # "" THEN [err |-> event.err, out |-> before.out]
             ELSE Returned(Put(before.out, n, event.out))

RECURSIVE get_events_from_lines(_, _, _, _)
get_events_from_lines(store, event_ids, layouts, n) ==
    IF n = 0 THEN Returned(store)
    ELSE LET before == get_events_from_lines(store, event_ids, layouts, n - 1)
             event_id == event_ids[n]
             event == create_event_from_attrlist(
                          session_get_raw_attributes(event_id, layouts[event_id]))
         IN  IF before.err # "" THEN before
             ELSE IF event.err # "" THEN [err |-> event.err, out |-> before.out]
             ELSE Returned(Put(before.out, event_id, event.out))

GetEventsFromLines ==
    \E event_ids \in Orderings(Ids), layouts \in [Ids -> AttrLayouts] :
        LET result == get_events_from_lines(events, event_ids, layouts, Len(event_ids))
        IN  /\ events' = result.out
            /\ last' = Outcome("get_events", 0, "",
                               IF result.err # "" THEN result.err ELSE "done", NoEvent)
            /\ UNCHANGED <<server, cases_selected, wire, parsed>>

\* change_admin_state_for_id after set_state was acknowledged: the Event of
\* get_updated_event_for_id is stored by _set_event, under the Event's id
ChangeAdminStateFromLines ==
    \E i \in DOMAIN events, layout \in AttrLayouts :
        LET attrlist == session_get_raw_attributes(i, layout)
            created == create_event_from_attrlist(attrlist)
        IN  /\ wire' = attrlist
            /\ parsed' = [fn |-> "create_event_from_id",
                          err |-> created.err, out |-> created.out]
            /\ IF created.err # ""
               THEN /\ events' = events
                    /\ last' = Outcome("change_admin_state_for_id", i, layout,
                                       created.err, NoEvent)
               ELSE \E event \in {created.out} :
                    /\ events' = _set_event(events,
                          set_log_for_event(
                              set_history_for_event(event, get_raw_history(event.id)),
                              get_raw_log(event.id)))
                    /\ last' = Outcome("change_admin_state_for_id", i, layout,
                                       "event", NoEvent)
            /\ UNCHANGED <<server, cases_selected>>

InitLineStore ==
    /\ server \in [Ids -> [state : {"open"}, hist : {0}]]
    /\ events = << >>
    /\ cases_selected = << >>
    /\ last = Outcome("init", 0, "", "", NoEvent)
    /\ wire = << >>
    /\ parsed = Unparsed

NextLineStore ==
    \/ GetEventsFromLines
    \/ ChangeAdminStateFromLines

SpecLineStore == InitLineStore /\ [][NextLineStore]_vars

\* ---------------------------------------------------- HistoryAdapter
SYSTEM_USER == <<"monitor">>

starts_with_space(row) == Len(row) > 0 /\ row[1] = " "

append_to_last(history_list, text) ==
    [history_list EXCEPT ![Len(history_list)].log = @ \o text]

end_of_history_never(row) == FALSE

end_of_history(row) == row = <<" ">>

server_generated_never(body) == FALSE

server_generated(body) == " " \in Range(body)

\* the loop body of parse_response for one row
history_row(history_list, row) ==
    IF end_of_history(row) THEN Returned(history_list)          \* continue
    ELSE IF starts_with_space(row)
    THEN IF history_list = << >> THEN Raised("IndexError")      \* history_list[-1]
         ELSE Returned(append_to_last(history_list, strip(row) \o <<" ">>))
    ELSE LET parts == split(row, " ")
         IN  IF Len(parts) < 2 THEN Raised("ValueError")        \* timestamp, body = [one part]
             ELSE IF ~is_int(parts[1]) THEN Raised("ValueError")
             ELSE LET dt == convert_timestamp(int(parts[1]))
                      body == parts[2]
                  IN  Returned(Append(history_list,
                         IF server_generated(body)
                         THEN [date |-> dt, user |-> SYSTEM_USER, log |-> body]
                         ELSE [date |-> dt, user |-> body, log |-> << >>]))

RECURSIVE history_loop(_, _)
history_loop(history_data, n) ==
    IF n = 0 THEN Returned(<< >>)
    ELSE LET before == history_loop(history_data, n - 1)
         IN  IF before.err # "" THEN before
             ELSE history_row(before.out, history_data[n])

\* the closing loop: entry["log"] = entry["log"].strip()
history_unstripped(history_list) == history_list

history_strip(history_list) ==
    [n \in 1..Len(history_list) |-> [history_list[n] EXCEPT !.log = strip(@)]]

HistoryAdapter_parse_response(history_data) ==
    LET looped == history_loop(history_data, Len(history_data))
    IN  IF looped.err # "" THEN looped ELSE Returned(history_strip(looped.out))

\* ------------------------------ the history parser as a state machine
\* over lines, with the states expect-entry-start and accumulating-free-text
MachineStart == [state |-> "expect-entry-start", err |-> "", out |-> << >>]

machine_line(m, line) ==
    IF m.err # "" THEN m
    ELSE IF line = <<" ">>                       \* end-of-entry marker, dropped
    THEN [m EXCEPT !.state = "expect-entry-start"]
    ELSE IF ~starts_with_space(line)             \* starts a new logical entry
    THEN LET parts == split(line, " ")
         IN  IF Len(parts) < 2 \/ ~is_int(parts[1])
             THEN [m EXCEPT !.err = "ParseError"]
             ELSE LET timestamp == convert_timestamp(int(parts[1]))
                      body == parts[2]
                  IN  IF " " \in Range(body)
                      THEN [state |-> "expect-entry-start", err |-> "",
                            out |-> Append(m.out, [date |-> timestamp,
                                                   user |-> <<"monitor">>,
                                                   log |-> body])]
                      ELSE [state |-> "accumulating-free-text", err |-> "",
                            out |-> Append(m.out, [date |-> timestamp,
                                                   user |-> body,
                                                   log |-> << >>])]
    ELSE IF m.state = "accumulating-free-text"   \* free text of this entry
    THEN [m EXCEPT !.out[Len(m.out)].log = @ \o strip(line) \o <<" ">>]
    ELSE IF m.out = << >>                        \* nothing to continue
    THEN [m EXCEPT !.err = "ParseError"]
    ELSE [m EXCEPT !.out[Len(m.out)].log = @ \o strip(line) \o <<" ">>]

RECURSIVE machine_run(_, _)
machine_run(lines, n) ==
    IF n = 0 THEN MachineStart
    ELSE machine_line(machine_run(lines, n - 1), lines[n])

\* post-process: trim every entry's final message
history_machine(lines) ==
    LET m == machine_run(lines, Len(lines))
    IN  IF m.err # "" THEN Raised(m.err)
        ELSE Returned([n \in 1..Len(m.out) |-> [m.out[n] EXCEPT !.log = strip(@)]])

HistoryRows ==
    {<<"1", " ", "state", " ", "change">>,
     <<"2", " ", "alice">>,
     <<" ", "note", " ">>,
     <<" ", " ", "more">>,
     <<" ">>,
     <<" ", " ">>,
     <<"3", " ", " ", "x">>,
     <<"4", " ">>,
     <<"2">>,
     <<"x", " ", "y">>}

HistoryParseResponse ==
    /\ parsed = Unparsed
    /\ LET result == HistoryAdapter_parse_response(wire)
       IN  parsed' = [fn |-> "HistoryAdapter.parse_response",
                      err |-> result.err, out |-> result.out]
    /\ UNCHANGED <<server, events, cases_selected, last, wire>>

InitHistoryParser ==
    /\ server \in [Ids -> [state : {"open"}, hist : {0}]]
    /\ events = << >>
    /\ cases_selected = << >>
    /\ last = Outcome("init", 0, "", "", NoEvent)
    /\ wire \in Lists(HistoryRows)
    /\ parsed = Unparsed

NextHistoryParser == HistoryParseResponse

SpecHistoryParser == InitHistoryParser /\ [][NextHistoryParser]_vars

\* ---------------------------------------------------------- LogAdapter
log_row_skipping(log_list, row) ==
    LET parts == split(row, " ")
    IN  IF Len(parts) < 2 THEN Returned(log_list)
        ELSE IF ~is_int(parts[1]) THEN Raised("ValueError")
        ELSE Returned(Append(log_list,
                [date |-> convert_timestamp(int(parts[1])), log |-> parts[2]]))

log_row(log_list, row) ==
    LET parts == split(row, " ")
    IN  IF Len(parts) < 2 THEN Raised("ValueError")             \* timestamp, log = [one part]
        ELSE IF ~is_int(parts[1]) THEN Raised("ValueError")
        ELSE Returned(Append(log_list,
                [date |-> convert_timestamp(int(parts[1])), log |-> parts[2]]))

RECURSIVE log_loop(_, _)
log_loop(log_data, n) ==
    IF n = 0 THEN Returned(<< >>)
    ELSE LET before == log_loop(log_data, n - 1)
         IN  IF before.err # "" THEN before
             ELSE log_row(before.out, log_data[n])

LogAdapter_parse_response(log_data) == log_loop(log_data, Len(log_data))

LogRows ==
    {<<"1", " ", "link", " ", "down">>,
     <<"2", " ", "up">>,
     <<"3", " ", " ", "padded", " ">>,
     <<"4", " ">>,
     <<"3">>,
     << >>,
     <<"x", " ", "y">>}

LogParseResponse ==
    /\ parsed = Unparsed
    /\ LET result == LogAdapter_parse_response(wire)
       IN  parsed' = [fn |-> "LogAdapter.parse_response",
                      err |-> result.err, out |-> result.out]
    /\ UNCHANGED <<server, events, cases_selected, last, wire>>

InitLogParser ==
    /\ server \in [Ids -> [state : {"open"}, hist : {0}]]
    /\ events = << >>
    /\ cases_selected = << >>
    /\ last = Outcome("init", 0, "", "", NoEvent)
    /\ wire \in Lists(LogRows)
    /\ parsed = Unparsed

NextLogParser == LogParseResponse

SpecLogParser == InitLogParser /\ [][NextLogParser]_vars

\* ===================================================================
\* Properties
\* ===================================================================
ManagerOps ==
    {"get_events", "create_event_from_id", "get_updated_event_for_id",
     "change_admin_state_for_id", "add_history_entry_for_id",
     "get_history_for_id", "get_log_for_id"}

\* the Event a full refresh of id i builds from the remote system's state
FreshSnapshot(i) ==
    [id |-> i, adm_state |-> server[i].state, history |-> server[i].hist, log |-> LogLines]

\* the Event built from the attributes of id i alone
FreshAttributes(i) == [id |-> i, adm_state |-> server[i].state, history |-> 0, log |-> 0]

\* C1: after poll() has processed a 'scavenged' notification for an id of the
\* store, that id is neither in the store nor in cases_selected, whatever the
\* notification's 'case' field is.
C1_ScavengedLeavesStoreAndSelection ==
    [][\A update \in Notifications :
          (update.type = "scavenged" /\ update.id \in DOMAIN events
              /\ PollStep(update, FALSE))
          => (update.id \notin DOMAIN events'
              /\ update.id \notin Range(cases_selected'))]_vars

\* C2: a 'state' or 'attr' notification for an id of the store overwrites the
\* stored Event by the Event a direct fetch of that id produces at that
\* instant, and changes no other store entry.
C2_KnownIdRefetched ==
    [][\A i \in DOMAIN events :
          (/\ last'.op = "poll" /\ last'.arg \in {"state", "attr"} /\ last'.out = "True"
           /\ last'.id = i)
          => (/\ DOMAIN events' = DOMAIN events
              /\ events'[i] = create_event_from_id(i)'
              /\ events'[i] = FreshAttributes(i)'
              /\ \A j \in DOMAIN events \ {i} : events'[j] = events[j])]_vars

C2_Witness ==
    /\ last.op = "poll" /\ last.arg = "attr" /\ last.out = "True"
    /\ DOMAIN events = Ids
    /\ events[last.id] = FreshAttributes(last.id)
    /\ \E j \in Ids \ {last.id} : events[j] # FreshAttributes(j)

\* C3: a notification for an id that is not in the store changes the store
\* if and only if its kind is 'state', and then it adds the id with a freshly
\* fetched Event; for every other kind the store and the selection stay.
C3_UnknownIdGuard ==
    [][\A i \in Ids \ DOMAIN events :
          (last'.op = "poll" /\ last'.id = i)
          => IF last'.arg = "state" /\ last'.out = "True"
             THEN /\ events' # events
                  /\ events' = Put(events, i, FreshAttributes(i)')
                  /\ cases_selected' = cases_selected
             ELSE /\ events' = events
                  /\ cases_selected' = cases_selected
                  /\ last'.arg # "state" => last'.out = "None"]_vars

C3_Witness ==
    /\ last.op = "poll" /\ last.arg = "scavenged" /\ last.out = "None"
    /\ last.id \notin DOMAIN events
    /\ events # << >>
    /\ cases_selected # << >>

\* C4: when set_state is declined, change_admin_state_for_id returns none
\* without raising and leaves every store entry unchanged.
C4_DeclinedStateChange ==
    [][(last'.op = "change_admin_state_for_id" /\ last'.arg = "declined")
       => (last'.out = "none" /\ last'.ev = NoEvent /\ events' = events)]_vars

C4_Witness ==
    /\ last.op = "change_admin_state_for_id" /\ last.arg = "declined"
    /\ last.out = "none"
    /\ events[last.id] # FreshSnapshot(last.id)

\* C5: when the attribute fetch of one id fails during get_events(), that id
\* is skipped: get_events returns normally and every other id of the id list
\* is in the store.
C5_GetEventsSkipsFailedId ==
    [][\A event_ids \in Orderings(Ids) : \A k \in 1..Len(event_ids) :
          GetEventsStep(event_ids, k)
          => (/\ last'.out = "done"
              /\ \A j \in Range(event_ids) \ {event_ids[k]} : j \in DOMAIN events')]_vars

\* C6: no ProtocolError of the session escapes a public manager operation;
\* it reaches the caller as a ManagerException.
C6_NoProtocolErrorEscapes ==
    last.op \in ManagerOps => last.out # "ProtocolError"

\* C7: an id of the store stays in the store until a 'scavenged'
\* notification for that id is processed; no other operation removes an id.
C7_OnlyScavengedRemoves ==
    [][\A i \in DOMAIN events :
          i \notin DOMAIN events'
          => (last'.op = "poll" /\ last'.arg = "scavenged" /\ last'.id = i)]_vars

C7_Witness ==
    /\ last.op = "poll" /\ last.arg = "scavenged" /\ last.out = "True"
    /\ last.id \notin DOMAIN events
    /\ events # << >>

\* C8: every stored Event is either entirely its previous snapshot or
\* entirely a fresh one (the attributes alone, or attributes, history and log
\* of one refresh); an Event with a replaced history but its old attributes
\* and log is never left in the store, also when an operation fails partway.
C8_EventReplacedAtomically ==
    [][\A i \in (DOMAIN events) \cap (DOMAIN events') :
          \/ events'[i] = events[i]
          \/ events'[i] = FreshSnapshot(i)'
          \/ events'[i] = FreshAttributes(i)']_vars

\* C9: when set_state is acknowledged (and the refresh goes through),
\* change_admin_state_for_id stores under that id the Event of a full refresh
\* (new attributes, new history, new log), returns that Event, and changes no
\* other store entry.
C9_AcknowledgedStateChange ==
    [][\A i \in DOMAIN events :
          (/\ last'.op = "change_admin_state_for_id" /\ last'.arg = "acknowledged"
           /\ last'.out # "ManagerException" /\ last'.id = i)
          => (/\ last'.out = "event"
              /\ events' = Put(events, i, FreshSnapshot(i)')
              /\ last'.ev = events'[i])]_vars

C9_Witness ==
    /\ last.op = "change_admin_state_for_id" /\ last.out = "event"
    /\ DOMAIN events = Ids
    /\ events[last.id] = FreshSnapshot(last.id)
    /\ events[last.id].history > 0
    /\ \E j \in Ids \ {last.id} : events[j] # FreshSnapshot(j)

\* C10: get_history_for_id and get_log_for_id leave the store unchanged,
\* whether they return a list or fail.
C10_QueriesLeaveStore ==
    [][last'.op \in {"get_history_for_id", "get_log_for_id"} => events' = events]_vars

C10_Witness ==
    /\ last.op = "get_history_for_id" /\ last.out = "list"
    /\ last.id \in DOMAIN events
    /\ get_raw_history(last.id) # events[last.id].history
\* ---------------------------------------------------------- the adapters
WellFormedAttrs(attrlist) == \A n \in 1..Len(attrlist) : ":" \in Range(attrlist[n])

\* the last line of attrlist whose key, normalized by norm, is k
LastWithKey(attrlist, norm(_), k) ==
    attrlist[Max({n \in 1..Len(attrlist) : norm(split(attrlist[n], ":")[1]) = k})]

\* normalization as hyphens to underscores, then the rename table
RenamedKey(k) == FIELD_MAP_get([n \in 1..Len(k) |-> IF k[n] = "-" THEN "_" ELSE k[n]])

\* ... and then surrounding whitespace removed
TrimmedRenamedKey(k) == strip(RenamedKey(k))

OneEntryPerKey(norm(_)) ==
    (parsed.fn = "attrlist_to_attrdict" /\ WellFormedAttrs(wire))
    => /\ parsed.err = ""
       /\ DOMAIN parsed.out = {norm(split(wire[n], ":")[1]) : n \in 1..Len(wire)}
       /\ \A k \in DOMAIN parsed.out :
             parsed.out[k] = strip(split(LastWithKey(wire, norm, k), ":")[2])

\* C11 (as stated): for well-formed lines attrlist_to_attrdict returns one
\* entry per distinct normalized key (hyphens to underscores, then the rename
\* table), holding the trimmed value of the last line with that key.
C11_OneEntryPerRenamedKey == OneEntryPerKey(RenamedKey)

\* C11 (amended): the same with the key's surrounding whitespace removed
\* after the rename table was applied.
C11_OneEntryPerTrimmedKey == OneEntryPerKey(TrimmedRenamedKey)

C11_Witness ==
    /\ parsed.fn = "attrlist_to_attrdict" /\ parsed.err = ""
    /\ Len(wire) = 3
    /\ Cardinality(DOMAIN parsed.out) = 2
    /\ <<"if", "_", "index">> \in DOMAIN parsed.out
    /\ <<"state">> \in DOMAIN parsed.out

\* C12: an attribute line without ':' makes the parse fail: no map comes
\* back, create_event_from_id returns no Event and leaves the store as it was.
C12_MissingSeparatorFails ==
    [][(parsed'.fn \in {"attrlist_to_attrdict", "create_event_from_id"}
          /\ ~WellFormedAttrs(wire))
       => (/\ parsed'.err = "ValueError"
           /\ parsed'.out = << >>
           /\ parsed'.fn = "create_event_from_id"
                 => (last'.out = "ValueError" /\ last'.ev = NoEvent)
           /\ events' = events)]_vars

C12_Witness ==
    /\ parsed.fn = "create_event_from_id" /\ parsed.err = "ValueError"
    /\ Len(wire) = 3
    /\ ~WellFormedAttrs(wire)
    /\ WellFormedAttrs(SubSeq(wire, 1, 2))
    /\ events # << >>
\* ---- history lines, as the claims speak of them
EntryStarts(rows) == {p \in 1..Len(rows) : ~starts_with_space(rows[p])}

NthEntryStart(rows, n) ==
    CHOOSE p \in EntryStarts(rows) :
        Cardinality({q \in EntryStarts(rows) : q <= p}) = n

\* the trimmed texts of the indented lines from position q up to the next
\* line that starts an entry, end-of-entry markers left out
RECURSIVE ContinuationTexts(_, _)
ContinuationTexts(rows, q) ==
    IF q > Len(rows) \/ ~starts_with_space(rows[q]) THEN << >>
    ELSE (IF rows[q] = <<" ">> THEN << >> ELSE <<strip(rows[q])>>)
         \o ContinuationTexts(rows, q + 1)

RECURSIVE EachFollowedBySpace(_)
EachFollowedBySpace(texts) ==
    IF texts = << >> THEN << >>
    ELSE texts[1] \o <<" ">> \o EachFollowedBySpace(Tail(texts))

RECURSIVE JoinedBySingleSpaces(_)
JoinedBySingleSpaces(texts) ==
    IF texts = << >> THEN << >>
    ELSE IF Len(texts) = 1 THEN texts[1]
    ELSE texts[1] \o <<" ">> \o JoinedBySingleSpaces(Tail(texts))

HistoryParsed == parsed.fn = "HistoryAdapter.parse_response" /\ parsed.err = ""

\* C13: a returned history list has one entry per line that does not start
\* with a space, in input order; the line is split at its first space into
\* timestamp and body; a body with a space gives author "monitor" and a
\* message that begins with the body, any other body is the author and the
\* message holds nothing but what later indented lines add.
C13_OneEntryPerUnindentedLine ==
    HistoryParsed =>
        /\ Len(parsed.out) = Cardinality(EntryStarts(wire))
        /\ \A n \in 1..Len(parsed.out) :
              LET p == NthEntryStart(wire, n)
                  parts == split(wire[p], " ")
                  added == EachFollowedBySpace(ContinuationTexts(wire, p + 1))
              IN  /\ Len(parts) = 2
                  /\ parsed.out[n].date = convert_timestamp(int(parts[1]))
                  /\ IF " " \in Range(parts[2])
                     THEN /\ parsed.out[n].user = <<"monitor">>
                          /\ parsed.out[n].log = strip(parts[2] \o added)
                     ELSE /\ parsed.out[n].user = parts[2]
                          /\ parsed.out[n].log = strip(added)

C13_Witness ==
    /\ HistoryParsed
    /\ Len(wire) = 3
    /\ Len(parsed.out) = 2
    /\ parsed.out[1].user = <<"alice">> /\ parsed.out[1].log = <<"note">>
    /\ parsed.out[2].user = <<"monitor">>
    /\ parsed.out[2].log = <<"state", " ", "change">>

NoSpaceAtTheEnds(text) == text = << >> \/ (text[1] # " " /\ text[Len(text)] # " ")

\* C14: a user-authored entry followed by indented continuation lines is one
\* entry whose final message is the trimmed texts of those lines joined by
\* single spaces, without whitespace at either end.
C14_ContinuationLinesCollapse ==
    HistoryParsed =>
        \A n \in 1..Len(parsed.out) :
            LET p == NthEntryStart(wire, n)
                texts == ContinuationTexts(wire, p + 1)
            IN  " " \notin Range(split(wire[p], " ")[2]) =>
                    /\ parsed.out[n].log = strip(JoinedBySingleSpaces(texts))
                    /\ NoSpaceAtTheEnds(parsed.out[n].log)

C14_Witness ==
    /\ HistoryParsed
    /\ wire = <<<<"2", " ", "alice">>, <<" ", "note", " ">>, <<" ", " ", "more">>>>
    /\ Len(parsed.out) = 1
    /\ parsed.out[1].user = <<"alice">>
    /\ parsed.out[1].log = <<"note", " ", "more">>

\* C15: a returned log list has one entry per input line, in input order,
\* each line split at its first space into timestamp and message; when some
\* line has no space the parse fails and no list comes back.
C15_OneLogEntryPerLine ==
    parsed.fn = "LogAdapter.parse_response" =>
        /\ (\E n \in 1..Len(wire) : " " \notin Range(wire[n])) =>
              (parsed.err = "ValueError" /\ parsed.out = << >>)
        /\ parsed.err = "" =>
              /\ Len(parsed.out) = Len(wire)
              /\ \A n \in 1..Len(wire) :
                    LET at == Min(Positions(wire[n], " "))
                    IN  /\ parsed.out[n].date =
                              convert_timestamp(int(SubSeq(wire[n], 1, at - 1)))
                        /\ parsed.out[n].log = SubSeq(wire[n], at + 1, Len(wire[n]))

C15_Witness ==
    /\ parsed.fn = "LogAdapter.parse_response" /\ parsed.err = ""
    /\ wire = <<<<"1", " ", "link", " ", "down">>, <<"3", " ", " ", "padded", " ">>,
                <<"2", " ", "up">>>>
    /\ Len(parsed.out) = 3
    /\ parsed.out[2].log = <<" ", "padded", " ">>

\* C16: a notification of an unrecognized kind changes neither the store nor
\* the selection, and poll() reports no change (a false result), so the
\* runner does not rebuild the case list.
C16_UnknownKindIgnored ==
    [][(last'.op = "poll" /\ last'.arg \notin {"", "state", "attr", "history", "log", "scavenged"})
       => (/\ events' = events
           /\ cases_selected' = cases_selected
           /\ last'.out \in {"False", "None"})]_vars

C16_Witness ==
    /\ last.op = "poll" /\ last.arg = "bogus" /\ last.out = "False"
    /\ last.id \in DOMAIN events
    /\ last.id \in Range(cases_selected)

\* C17: a 'history' or 'log' notification leaves the store (its ids and
\* their Events with history and log) and the selection as they were.
C17_HistoryLogNotificationNoOp ==
    [][(last'.op = "poll" /\ last'.arg \in {"history", "log"})
       => (events' = events /\ cases_selected' = cases_selected)]_vars

C17_Witness ==
    /\ last.op = "poll" /\ last.arg = "history" /\ last.out = "True"
    /\ last.id \in DOMAIN events
    /\ events[last.id] # FreshAttributes(last.id)
    /\ last.id \in Range(cases_selected)

\* ---- the history lines written back from a returned list
SerializedEntry(entry) ==
    IF entry.user = <<"monitor">>
    THEN << <<str(entry.date.epoch), " ">> \o entry.log >>
    ELSE << <<str(entry.date.epoch), " ">> \o entry.user,
            <<" ">> \o entry.log,
            <<" ">> >>

RECURSIVE Serialized(_)
Serialized(entries) ==
    IF entries = << >> THEN << >>
    ELSE SerializedEntry(Head(entries)) \o Serialized(Tail(entries))

\* C18: writing the returned entries back as history lines (a system entry
\* as 'timestamp body'; a user entry as 'timestamp user', an indented message
\* line and a ' ' marker) and parsing those lines again returns as many
\* entries, with the same timestamps in the same order.
C18_ReparseKeepsCountAndOrder ==
    HistoryParsed =>
        LET again == HistoryAdapter_parse_response(Serialized(parsed.out))
        IN  /\ again.err = ""
            /\ Len(again.out) = Len(parsed.out)
            /\ \A n \in 1..Len(parsed.out) : again.out[n].date = parsed.out[n].date

C18_Witness ==
    /\ HistoryParsed
    /\ Len(parsed.out) = 2
    /\ parsed.out[1].user = <<"monitor">> /\ parsed.out[1].log = <<"x">>
    /\ parsed.out[2].user = <<"alice">> /\ parsed.out[2].log = <<"more">>
    /\ HistoryAdapter_parse_response(Serialized(parsed.out)).out # parsed.out

\* C19: when get_events() stops at a failing per-id fetch, every id it
\* processed before the stop maps to its newly built Event, every other
\* store entry is what it was before the call, and no other id is stored.
C19_StoppedGetEventsKeepsStore ==
    [][(last'.op = "get_events" /\ last'.out = "ManagerException")
       => \A event_ids \in Orderings(Ids) : \A k \in 1..Len(event_ids) :
             GetEventsStep(event_ids, k)
             => LET processed == {event_ids[n] : n \in 1..(k - 1)}
                IN  /\ DOMAIN events' = DOMAIN events \cup processed
                    /\ \A j \in processed : events'[j] = FreshAttributes(j)'
                    /\ \A j \in DOMAIN events \ processed : events'[j] = events[j]]_vars

C19_Witness ==
    /\ last.op = "get_events" /\ last.out = "ManagerException"
    /\ DOMAIN events = Ids
    /\ events[last.id] # FreshAttributes(last.id)
    /\ \A j \in Ids \ {last.id} : events[j] = FreshAttributes(j)

InsertedAt(rows, p, row) == SubSeq(rows, 1, p) \o <<row>> \o SubSeq(rows, p + 1, Len(rows))

DeletedAt(rows, p) == SubSeq(rows, 1, p - 1) \o SubSeq(rows, p + 1, Len(rows))

\* C20: on every line sequence the single loop of parse_response and the
\* two-state machine agree (both fail, or both return the same entry list),
\* and a ' ' marker line put in or taken out anywhere leaves the result of
\* parse_response as it is.
C20_LoopEqualsStateMachine ==
    parsed.fn = "HistoryAdapter.parse_response" =>
        LET result == [err |-> parsed.err, out |-> parsed.out]
            machine == history_machine(wire)
        IN  /\ (result.err = "") <=> (machine.err = "")
            /\ result.out = machine.out
            /\ \A p \in 0..Len(wire) :
                  HistoryAdapter_parse_response(InsertedAt(wire, p, <<" ">>)) = result
            /\ \A p \in Positions(wire, <<" ">>) :
                  HistoryAdapter_parse_response(DeletedAt(wire, p)) = result

C20_Witness ==
    /\ HistoryParsed
    /\ wire = <<<<"2", " ", "alice">>, <<" ">>, <<" ", "note", " ">>>>
    /\ Len(parsed.out) = 1
    /\ parsed.out[1].log = <<"note">>
    /\ machine_run(wire, 2).state = "expect-entry-start"

\* C21: after any interleaving of selection toggles, selection clears and
\* processed notifications, every id of cases_selected is a key of the
\* store, so a bulk action over the selection finds cases[id] for each id.
C21_SelectionWithinStore ==
    Range(cases_selected) \subseteq DOMAIN events

\* C22: in every reachable state each store entry is keyed by the id of the
\* Event it holds, also after get_events, where the key is the id of the
\* session's id list and the Event's id is parsed from the attribute lines.
C22_StoreKeyedByEventId ==
    \A k \in DOMAIN events : events[k].id = k

C22_Witness ==
    /\ last.op = "get_events" /\ last.out = "done"
    /\ DOMAIN events = Ids
    /\ \E k \in Ids : events[k].adm_state = <<"closed">>
    /\ \E k \in Ids : events[k].adm_state = << >>
====
